---- MODULE Spec2Model ----
(***************************************************************************)
(* The parallel task-execution engine of                                   *)
(* WebUI/backend/app/claude_flow/parallel_processor.py (ParallelProcessor). *)
(*                                                                         *)
(* The engine runs on one asyncio event loop: a coroutine runs without     *)
(* interruption until an await that really suspends.  Every action below   *)
(* is one such uninterrupted stretch of code.                              *)
(*                                                                         *)
(* The module logger is logging.getLogger(__name__) (line 52) and nothing  *)
(* configures it, so the effective level is WARNING: a call                *)
(* logger.info(msg, key=value) returns before it formats anything, while   *)
(* logger.warn(msg, key=value) and logger.error(msg, key=value) reach      *)
(* Logger._log(), which rejects the keyword and raises TypeError.          *)
(***************************************************************************)
EXTENDS Integers, Sequences, FiniteSets, TLC

\* ------------------------------------------------------------------ bounds
MaxWorkers == 2
\* MaxWork bounds a run: one unit for each call of initialize,
\* execute_agents_parallel, cancel_session or cleanup, for each task submitted
\* and for each timer that runs out (batch wait timeout, retention delay)
MaxWork == 5
NumSessions == 2
QueueSize == 1

\* ------------------------------------------------------- program constants
LOW == 1
NORMAL == 5
HIGH == 8
CRITICAL == 10
NoneItem == 0

PriorityEnum == {LOW, NORMAL, HIGH, CRITICAL}
SessionIds == 1..NumSessions

\* agent names used as inputs: one the registry knows, one it does not
AGENT_REGISTRY == {"TimezoneAgent"}
AgentNames == {"TimezoneAgent", "NoSuchAgent"}

VARIABLES
    max_workers,      \* settings.claude_flow.max_workers
    is_initialized,
    is_running,
    semaphore,        \* free permits of self.semaphore
    sem_waiters,      \* worker ids suspended in semaphore.acquire(), oldest first
    task_queue,       \* self.task_queue: task ids, NoneItem is the exit signal
    getters,          \* worker ids suspended in task_queue.get(), oldest first
    active_sessions,  \* session id -> index into contexts, 0 when absent
    contexts,         \* every SessionContext object ever created
    tasks,            \* every SubAgentTaskModel ever submitted (index = task id)
    workers,          \* self.worker_tasks: one record per _worker_loop coroutine
    calls,            \* invocations of execute_agents_parallel
    shutdown,         \* cleanup(): position, calls completed, executor releases
    evictions,        \* session id -> scheduled _cleanup_session_later timers
    dispatched,       \* history: task ids in the order their agent was invoked
    not_ready_errors, \* history: some execute_agents_parallel call raised RuntimeError
    api_calls         \* history: the work done so far (see MaxWork)

config == <<max_workers>>
flags == <<is_initialized, is_running>>
limiter == <<semaphore, sem_waiters>>
sessions == <<active_sessions, contexts>>
pool == <<workers, getters>>

vars == <<config, flags, limiter, task_queue, sessions, tasks, pool, calls,
          shutdown, evictions, dispatched, not_ready_errors, api_calls>>

\* ------------------------------------------------------------ pure helpers
Min(a, b) == IF a < b THEN a ELSE b

Range(f) == {f[i] : i \in DOMAIN f}

\* logging.getLogger(__name__) at the default level: INFO is filtered before
\* the keyword arguments are looked at, WARNING and ERROR raise TypeError
LoggerRaises(level) == level \in {"warn", "error"}

\* the registry lookup (app/agents get_agent): the class for a registered
\* name, None otherwise.  The placeholder of the same name in
\* parallel_processor.py (lines 29-31) is this lookup in an empty registry:
\* what a batch of unregistered names meets
get_agent_always_found(agent_name) == TRUE

get_agent(agent_name) == agent_name \in AGENT_REGISTRY

\* sorted(tasks, key=lambda t: t.priority.value, reverse=True):
\* stable, descending.  ids is a sequence of task ids, prio maps id -> value
RECURSIVE InsertByPriority(_, _, _)
InsertByPriority(sorted, t, prio) ==
    IF sorted = <<>> THEN <<t>>
    ELSE IF prio[Head(sorted)] >= prio[t]
         THEN <<Head(sorted)>> \o InsertByPriority(Tail(sorted), t, prio)
         ELSE <<t>> \o sorted

RECURSIVE SortFrom(_, _, _)
SortFrom(sorted, ids, prio) ==
    IF ids = <<>> THEN sorted
    ELSE SortFrom(InsertByPriority(sorted, Head(ids), prio), Tail(ids), prio)

SortByPriority_unsorted(ids, prio) == ids

SortByPriority(ids, prio) == SortFrom(<<>>, ids, prio)

\* the for-loop of awaits on task_queue.put: puts go through without
\* suspending while the queue has room (Queue(maxsize=queue_size))
EnqueueLoop(q, items) ==
    LET room == IF QueueSize > Len(q) THEN QueueSize - Len(q) ELSE 0
        k == Min(room, Len(items))
    IN [queue |-> q \o SubSeq(items, 1, k),
        rest |-> SubSeq(items, k + 1, Len(items))]

\* ------------------------------------------------------------ constructors
\* SubAgentTaskModel as the caller builds it (schemas.py): status PENDING,
\* no output, no error.  outcome and cancel_pending are history fields:
\* what the AgentUnit did, and whether cancel_session flagged the session
\* while the task had not yet reached the cancel check of _execute_task.
NewTask(s, input) ==
    [session_id |-> s, agent_name |-> input.agent_name,
     priority |-> input.priority, status |-> "pending",
     output_data |-> FALSE, error_message |-> "none",
     outcome |-> "none", cancel_pending |-> FALSE]

NewSessionContext(s, ids, cb) ==
    [session_id |-> s, tasks |-> ids, completed_tasks |-> <<>>,
     failed_tasks |-> <<>>, is_cancelled |-> FALSE, progress_callback |-> cb]

NewWorker ==
    [pc |-> "start", task |-> 0, ctx |-> 0,
     tasks_completed |-> 0, tasks_failed |-> 0, current_task |-> "none"]

Init ==
    /\ max_workers \in 1..MaxWorkers
    /\ is_initialized = FALSE
    /\ is_running = FALSE
    /\ semaphore = max_workers
    /\ sem_waiters = <<>>
    /\ task_queue = <<>>
    /\ getters = <<>>
    /\ active_sessions = [s \in SessionIds |-> 0]
    /\ contexts = <<>>
    /\ tasks = <<>>
    /\ workers = <<>>
    /\ calls = <<>>
    /\ shutdown = [pc |-> "idle", remaining |-> 0, gathered |-> 0,
                   calls |-> 0, executor_shutdowns |-> 0]
    /\ evictions = [s \in SessionIds |-> 0]
    /\ dispatched = <<>>
    /\ not_ready_errors = FALSE
    /\ api_calls = 0

\* ---------------------------------------------------------------- initialize
\* initialize(): new WorkerStats, one _worker_loop task per entry, then the
\* two flags.  The created tasks do not run before initialize returns.
initialize ==
    /\ api_calls < MaxWork
    /\ api_calls' = api_calls + 1
    /\ workers' = workers \o [i \in 1..max_workers |-> NewWorker]
    /\ is_initialized' = TRUE
    /\ is_running' = TRUE
    /\ UNCHANGED <<config, limiter, task_queue, getters, sessions, tasks,
                   calls, shutdown, evictions, dispatched, not_ready_errors>>

\* ------------------------------------------------- execute_agents_parallel
\* one pass of the wait loop (lines 364-387) without the timeout test
WaitOutcome(cx, total) ==
    IF Len(cx.completed_tasks) + Len(cx.failed_tasks) >= total THEN "complete"
    ELSE IF cx.is_cancelled THEN "cancel"
    ELSE "sleep"

\* lines 389-406 after a break for completion or cancellation: the keyword
\* arguments of logger.info are evaluated first, completed_tasks/total_tasks
\* divides by zero for an empty batch, and the handler re-raises
EndOfWait(call, cx, reason) ==
    IF call.total = 0
    THEN [call EXCEPT !.pc = "raised", !.reason = reason]
    ELSE [call EXCEPT !.pc = "returned", !.reason = reason,
                      !.result = cx.completed_tasks \o cx.failed_tasks]

\* the call from the end of the put loop up to the first sleep
AfterPuts(call, cx) ==
    LET o == WaitOutcome(cx, call.total)
    IN IF o = "sleep" THEN [call EXCEPT !.pc = "wait"]
       ELSE EndOfWait(call, cx, o)

CallEnded(call) == call.pc \in {"returned", "raised"}

\* finally: asyncio.create_task(self._cleanup_session_later(session_id))
ScheduleEviction(call, s) ==
    IF CallEnded(call) THEN [evictions EXCEPT ![s] = @ + 1] ELSE evictions

execute_agents_parallel(s, batch, cb) ==
    /\ api_calls + 1 + Len(batch) <= MaxWork
    /\ api_calls' = api_calls + 1 + Len(batch)
    /\ IF ~is_initialized
       THEN \* line 331: RuntimeError before anything is created
            /\ not_ready_errors' = TRUE
            /\ UNCHANGED <<calls, tasks, sessions, task_queue, evictions>>
       ELSE LET n == Len(batch)
                base == Len(tasks)
                ids == [i \in 1..n |-> base + i]
                newTasks == tasks \o [i \in 1..n |-> NewTask(s, batch[i])]
                prio == [t \in 1..Len(newTasks) |-> newTasks[t].priority]
                cx == NewSessionContext(s, ids, cb)
                put == EnqueueLoop(task_queue, SortByPriority(ids, prio))
                c0 == [session_id |-> s, ctx |-> Len(contexts) + 1,
                       pc |-> "put", reason |-> "none", total |-> n,
                       batch |-> ids, rest |-> put.rest, result |-> <<>>]
                c1 == IF put.rest = <<>> THEN AfterPuts(c0, cx) ELSE c0
            IN /\ tasks' = newTasks
               /\ contexts' = Append(contexts, cx)
               /\ active_sessions' = [active_sessions EXCEPT ![s] = Len(contexts) + 1]
               /\ task_queue' = put.queue
               /\ calls' = Append(calls, c1)
               /\ evictions' = ScheduleEviction(c1, s)
               /\ UNCHANGED not_ready_errors
    /\ UNCHANGED <<config, flags, limiter, pool, shutdown, dispatched>>

\* a put that found the queue full resumes when there is room
CallerPut(c) ==
    /\ calls[c].pc = "put"
    /\ Len(task_queue) < QueueSize
    /\ LET put == EnqueueLoop(task_queue, calls[c].rest)
           c0 == [calls[c] EXCEPT !.rest = put.rest]
           c1 == IF put.rest = <<>> THEN AfterPuts(c0, contexts[c0.ctx]) ELSE c0
       IN /\ task_queue' = put.queue
          /\ calls' = [calls EXCEPT ![c] = c1]
          /\ evictions' = ScheduleEviction(c1, c0.session_id)
    /\ UNCHANGED <<config, flags, limiter, sessions, tasks, pool, shutdown,
                   dispatched, not_ready_errors, api_calls>>

\* a poll after asyncio.sleep(0.1) that leaves the loop for completion or
\* cancellation (a poll that goes back to sleep changes nothing)
CallerPoll(c) ==
    /\ calls[c].pc = "wait"
    /\ LET cx == contexts[calls[c].ctx]
           o == WaitOutcome(cx, calls[c].total)
       IN /\ o # "sleep"
          /\ calls' = [calls EXCEPT ![c] = EndOfWait(@, cx, o)]
    /\ evictions' = [evictions EXCEPT ![calls[c].session_id] = @ + 1]
    /\ UNCHANGED <<config, flags, limiter, task_queue, sessions, tasks, pool,
                   shutdown, dispatched, not_ready_errors, api_calls>>

\* a poll that finds the batch incomplete and task_timeout elapsed
\* (lines 372-379): logger.warn with keywords raises before the break, the
\* handler at line 408 calls logger.error with keywords, which raises again
CallerTimeout(c) ==
    /\ api_calls < MaxWork
    /\ api_calls' = api_calls + 1
    /\ calls[c].pc = "wait"
    /\ LET cx == contexts[calls[c].ctx]
       IN /\ Len(cx.completed_tasks) + Len(cx.failed_tasks) < calls[c].total
          /\ calls' = [calls EXCEPT ![c] =
                IF LoggerRaises("warn")
                THEN [@ EXCEPT !.pc = "raised", !.reason = "timeout"]
                ELSE EndOfWait(@, cx, "timeout")]
    /\ evictions' = [evictions EXCEPT ![calls[c].session_id] = @ + 1]
    /\ UNCHANGED <<config, flags, limiter, task_queue, sessions, tasks, pool,
                   shutdown, dispatched, not_ready_errors>>

\* _cleanup_session_later after its sleep: drops whatever context the id has
cleanup_session_later(s) ==
    /\ api_calls < MaxWork
    /\ api_calls' = api_calls + 1
    /\ evictions[s] > 0
    /\ evictions' = [evictions EXCEPT ![s] = @ - 1]
    /\ active_sessions' = [active_sessions EXCEPT ![s] = 0]
    /\ UNCHANGED <<config, flags, limiter, task_queue, contexts, tasks, pool,
                   calls, shutdown, dispatched, not_ready_errors>>

\* ------------------------------------------------------------ cancel_session
\* history: the tasks of the flagged session ids that have not yet reached
\* the cancel check of _execute_task (still pending, agent not yet invoked)
MarkCancelPending(S) ==
    [t \in 1..Len(tasks) |->
        IF /\ tasks[t].session_id \in S
           /\ tasks[t].status = "pending"
           /\ t \notin Range(dispatched)
        THEN [tasks[t] EXCEPT !.cancel_pending = TRUE]
        ELSE tasks[t]]

\* is_cancelled = True on the context each id of S has in the table
FlagContexts_every(S) ==
    [i \in 1..Len(contexts) |-> [contexts[i] EXCEPT !.is_cancelled = TRUE]]

FlagContexts(S) ==
    [i \in 1..Len(contexts) |->
        IF \E s \in S : active_sessions[s] = i
        THEN [contexts[i] EXCEPT !.is_cancelled = TRUE]
        ELSE contexts[i]]

\* cancel_session(s) for an id in the table (for an unknown id it returns
\* False and changes nothing)
cancel_session(s) ==
    /\ api_calls < MaxWork
    /\ api_calls' = api_calls + 1
    /\ active_sessions[s] # 0
    /\ contexts' = FlagContexts({s})
    /\ tasks' = MarkCancelPending({s})
    /\ UNCHANGED <<config, flags, limiter, task_queue, active_sessions, pool,
                   calls, shutdown, evictions, dispatched, not_ready_errors>>

\* ---------------------------------------------------------------- workers
\* while self.is_running: at the top of the loop
LoopPc == IF is_running THEN "get" ELSE "exited"

\* the queue's waiting getters after worker w went back to the loop top
GettersAfterLoop(w) == IF is_running THEN Append(getters, w) ELSE getters

\* asyncio.Semaphore: a permit is free
PermitFree_unbounded == TRUE

PermitFree == semaphore > 0

\* leaving 'async with self.semaphore' gives the permit back
SemaphoreRelease_lost(n) == n

SemaphoreRelease(n) == n + 1

\* acquire() returns at once only if a permit is free and nobody waits
AcquireNow == PermitFree /\ sem_waiters = <<>>

\* the except branch of _execute_task (lines 285-307), its finally, and the
\* except branch of _worker_loop (lines 197-199): both logger.error calls
\* pass keywords, so the first one already ends the coroutine
TasksAfterException(t, msg) ==
    [tasks EXCEPT ![t].status = "failed", ![t].error_message = msg]

ContextsAfterException(t) ==
    LET ci == active_sessions[tasks[t].session_id]
    IN IF ci # 0
       THEN [contexts EXCEPT ![ci].failed_tasks = Append(@, t)]
       ELSE contexts

WorkerAfterException(wrec) ==
    [wrec EXCEPT !.pc = IF LoggerRaises("error") THEN "crashed" ELSE LoopPc,
                 !.task = 0, !.ctx = 0, !.current_task = "none",
                 !.tasks_failed = @ + 1]

GettersAfterException(w) ==
    IF LoggerRaises("error") THEN getters ELSE GettersAfterLoop(w)

\* normal return of _execute_task, task_done(), back to the loop condition
WorkerAfterTask(wrec) ==
    [wrec EXCEPT !.pc = LoopPc, !.task = 0, !.ctx = 0, !.current_task = "none"]

\* _execute_task from the acquired semaphore to the await of agent.execute
\* (lines 217-249); g is the getter list without worker w
ExecuteTaskBody(w, t, g) ==
    LET s == tasks[t].session_id
        ci == active_sessions[s]
    IN IF ci = 0
       THEN \* line 231: ValueError, session not in the table
            /\ tasks' = TasksAfterException(t, "session_missing")
            /\ workers' = [workers EXCEPT ![w] = WorkerAfterException(@)]
            /\ getters' = IF LoggerRaises("error") THEN g
                          ELSE IF is_running THEN Append(g, w) ELSE g
            /\ UNCHANGED <<contexts, semaphore, dispatched>>
       ELSE IF contexts[ci].is_cancelled
       THEN \* lines 236-238
            /\ tasks' = [tasks EXCEPT ![t].status = "cancelled"]
            /\ workers' = [workers EXCEPT ![w] = WorkerAfterTask(@)]
            /\ getters' = IF is_running THEN Append(g, w) ELSE g
            /\ UNCHANGED <<contexts, semaphore, dispatched>>
       ELSE IF ~get_agent(tasks[t].agent_name)
       THEN \* line 243: ValueError, unknown agent
            /\ tasks' = TasksAfterException(t, "unknown_agent")
            /\ contexts' = ContextsAfterException(t)
            /\ workers' = [workers EXCEPT ![w] = WorkerAfterException(@)]
            /\ getters' = IF LoggerRaises("error") THEN g
                          ELSE IF is_running THEN Append(g, w) ELSE g
            /\ UNCHANGED <<semaphore, dispatched>>
       ELSE \* line 249: the AgentUnit is invoked, the permit stays taken
            /\ workers' = [workers EXCEPT ![w] =
                   [@ EXCEPT !.pc = "execute", !.task = t, !.ctx = ci,
                             !.current_task = tasks[t].agent_name]]
            /\ getters' = g
            /\ semaphore' = semaphore - 1
            /\ dispatched' = Append(dispatched, t)
            /\ UNCHANGED <<tasks, contexts>>

\* first run of the _worker_loop coroutines that initialize created: they
\* are scheduled back to back and each runs up to its first queue.get()
WorkersStart ==
    LET started == {w \in 1..Len(workers) : workers[w].pc = "start"}
        order == [i \in 1..Cardinality(started) |->
                     CHOOSE w \in started :
                         Cardinality({v \in started : v < w}) = i - 1]
    IN /\ started # {}
       /\ workers' = [w \in 1..Len(workers) |->
                         IF w \in started
                         THEN [workers[w] EXCEPT !.pc = LoopPc]
                         ELSE workers[w]]
       /\ getters' = IF is_running THEN getters \o order ELSE getters
       /\ UNCHANGED <<config, flags, limiter, task_queue, sessions, tasks,
                      calls, shutdown, evictions, dispatched, not_ready_errors, api_calls>>

\* asyncio.Queue.get() removes the item it returns
QueueAfterGet_peek(q) == q

QueueAfterGet(q) == Tail(q)

\* task_queue.get() delivers the oldest item to the longest-waiting getter
WorkerDequeue(w) ==
    /\ getters # <<>>
    /\ w = Head(getters)
    /\ task_queue # <<>>
    /\ task_queue' = QueueAfterGet(task_queue)
    /\ LET item == Head(task_queue)
       IN IF item = NoneItem
          THEN /\ workers' = [workers EXCEPT ![w].pc = "exited"]
               /\ getters' = Tail(getters)
               /\ UNCHANGED <<tasks, contexts, limiter, dispatched>>
          ELSE IF AcquireNow
          THEN /\ ExecuteTaskBody(w, item, Tail(getters))
               /\ UNCHANGED sem_waiters
          ELSE /\ workers' = [workers EXCEPT ![w].pc = "acquire",
                                             ![w].task = item]
               /\ getters' = Tail(getters)
               /\ sem_waiters' = Append(sem_waiters, w)
               /\ UNCHANGED <<tasks, contexts, semaphore, dispatched>>
    /\ UNCHANGED <<config, flags, active_sessions, calls, shutdown,
                   evictions, not_ready_errors, api_calls>>

\* wait_for(get, 5.0) times out on an empty queue and the loop condition
\* is found false (with is_running true the worker just waits again)
WorkerGetTimeout(w) ==
    /\ getters # <<>>
    /\ w = Head(getters)
    /\ task_queue = <<>>
    /\ ~is_running
    /\ workers' = [workers EXCEPT ![w].pc = "exited"]
    /\ getters' = Tail(getters)
    /\ UNCHANGED <<config, flags, limiter, task_queue, sessions, tasks,
                   calls, shutdown, evictions, dispatched, not_ready_errors, api_calls>>

\* the longest-waiting worker suspended in semaphore.acquire() gets a permit
WorkerAcquire(w) ==
    /\ sem_waiters # <<>>
    /\ w = Head(sem_waiters)
    /\ PermitFree
    /\ sem_waiters' = Tail(sem_waiters)
    /\ ExecuteTaskBody(w, workers[w].task, getters)
    /\ UNCHANGED <<config, flags, task_queue, active_sessions, calls,
                   shutdown, evictions, not_ready_errors, api_calls>>

\* line 256: the task takes the status of the agent's result, whatever the
\* session's cancelled flag has become during the invocation
ResultStatus_unless_cancelled(cx, outcome) ==
    IF cx.is_cancelled THEN "cancelled" ELSE outcome

ResultStatus(cx, outcome) == outcome

\* agent_instance.execute returns a result (COMPLETED or FAILED) or raises
\* (lines 255-272, or the except branch)
WorkerAgentReturn(w, outcome) ==
    /\ workers[w].pc = "execute"
    /\ LET t == workers[w].task
           ci == workers[w].ctx
       IN IF outcome = "raised"
          THEN /\ tasks' = [TasksAfterException(t, "exception")
                               EXCEPT ![t].outcome = outcome]
               /\ contexts' = ContextsAfterException(t)
               /\ workers' = [workers EXCEPT ![w] = WorkerAfterException(@)]
               /\ getters' = GettersAfterException(w)
               /\ semaphore' = SemaphoreRelease(semaphore)
          ELSE /\ tasks' = [tasks EXCEPT
                      ![t].status = ResultStatus(contexts[ci], outcome),
                      ![t].output_data = (outcome = "completed"),
                      ![t].error_message =
                          IF outcome = "failed" THEN "agent_error" ELSE "none",
                      ![t].outcome = outcome]
               /\ contexts' = IF outcome = "completed"
                      THEN [contexts EXCEPT ![ci].completed_tasks = Append(@, t)]
                      ELSE [contexts EXCEPT ![ci].failed_tasks = Append(@, t)]
               /\ LET counted == IF outcome = "completed"
                          THEN [workers[w] EXCEPT !.tasks_completed = @ + 1]
                          ELSE [workers[w] EXCEPT !.tasks_failed = @ + 1]
                  IN IF contexts[ci].progress_callback
                     THEN /\ workers' = [workers EXCEPT ![w] =
                                 [counted EXCEPT !.pc = "callback"]]
                          /\ UNCHANGED <<getters, semaphore>>
                     ELSE /\ workers' = [workers EXCEPT ![w] =
                                 WorkerAfterTask(counted)]
                          /\ getters' = GettersAfterLoop(w)
                          /\ semaphore' = SemaphoreRelease(semaphore)
    /\ UNCHANGED <<config, flags, sem_waiters, task_queue, active_sessions,
                   calls, shutdown, evictions, dispatched, not_ready_errors, api_calls>>

\* the awaited progress_callback returns, or raises into the except branch
WorkerCallbackReturn(w, ok) ==
    /\ workers[w].pc = "callback"
    /\ LET t == workers[w].task
       IN IF ok
          THEN /\ workers' = [workers EXCEPT ![w] = WorkerAfterTask(@)]
               /\ getters' = GettersAfterLoop(w)
               /\ UNCHANGED <<tasks, contexts>>
          ELSE /\ tasks' = TasksAfterException(t, "callback_error")
               /\ contexts' = ContextsAfterException(t)
               /\ workers' = [workers EXCEPT ![w] = WorkerAfterException(@)]
               /\ getters' = GettersAfterException(w)
    /\ semaphore' = SemaphoreRelease(semaphore)
    /\ UNCHANGED <<config, flags, sem_waiters, task_queue, active_sessions,
                   calls, shutdown, evictions, dispatched, not_ready_errors, api_calls>>

\* ------------------------------------------------------------------ cleanup
\* cleanup() after its put loop: gather over the worker tasks it listed, or
\* straight to thread_executor.shutdown when there are none
AfterSignals(sd, n) ==
    IF n = 0
    THEN [sd EXCEPT !.pc = "idle", !.remaining = 0, !.calls = @ + 1,
                    !.executor_shutdowns = @ + 1]
    ELSE [sd EXCEPT !.pc = "gather", !.remaining = 0]

\* lines 518-526 up to the first put that suspends
CleanupStart ==
    /\ api_calls < MaxWork
    /\ api_calls' = api_calls + 1
    /\ shutdown.pc = "idle"
    /\ is_running' = FALSE
    /\ LET S == {s \in SessionIds : active_sessions[s] # 0}
       IN /\ contexts' = FlagContexts(S)
          /\ tasks' = MarkCancelPending(S)
    /\ LET n == Len(workers)
           put == EnqueueLoop(task_queue, [i \in 1..n |-> NoneItem])
           sd == [shutdown EXCEPT !.gathered = n]
       IN /\ task_queue' = put.queue
          /\ shutdown' = IF put.rest = <<>>
                         THEN AfterSignals(sd, n)
                         ELSE [sd EXCEPT !.pc = "put", !.remaining = Len(put.rest)]
    /\ UNCHANGED <<config, is_initialized, limiter, active_sessions, pool,
                   calls, evictions, dispatched, not_ready_errors>>

\* a put(None) that found the queue full resumes
CleanupPut ==
    /\ shutdown.pc = "put"
    /\ Len(task_queue) < QueueSize
    /\ LET put == EnqueueLoop(task_queue,
                      [i \in 1..shutdown.remaining |-> NoneItem])
       IN /\ task_queue' = put.queue
          /\ shutdown' = IF put.rest = <<>>
                         THEN AfterSignals(shutdown, shutdown.gathered)
                         ELSE [shutdown EXCEPT !.remaining = Len(put.rest)]
    /\ UNCHANGED <<config, flags, limiter, sessions, tasks, pool, calls,
                   evictions, dispatched, not_ready_errors, api_calls>>

\* asyncio.gather(*self.worker_tasks, return_exceptions=True) completes,
\* then thread_executor.shutdown(wait=True)
CleanupGather ==
    /\ shutdown.pc = "gather"
    /\ \A w \in 1..shutdown.gathered : workers[w].pc \in {"exited", "crashed"}
    /\ shutdown' = [shutdown EXCEPT !.pc = "idle", !.calls = @ + 1,
                                    !.executor_shutdowns = @ + 1]
    /\ UNCHANGED <<config, flags, limiter, task_queue, sessions, tasks, pool,
                   calls, evictions, dispatched, not_ready_errors, api_calls>>

\* ------------------------------------------------------------ specification
\* session ids are interchangeable: a fresh id is the next unused one
UsedSessionIds == {calls[c].session_id : c \in 1..Len(calls)}

NextSessionIds == {s \in SessionIds : \A r \in 1..(s - 1) : r \in UsedSessionIds}

TaskInputs == [agent_name : AgentNames, priority : {NORMAL}]

\* batches the caller may still submit within the work bound
Batches == UNION {[1..n -> TaskInputs] : n \in 0..(MaxWork - api_calls - 1)}

\* with or without a progress_callback (it is only ever called for a task)
Callbacks(batch) == IF batch = <<>> THEN {FALSE} ELSE BOOLEAN

AgentOutcomes == {"completed", "failed", "raised"}

\* the engine's methods called by its users
ApiCall ==
    \/ initialize
    \/ \E s \in NextSessionIds, batch \in Batches :
           \E cb \in Callbacks(batch) : execute_agents_parallel(s, batch, cb)
    \/ \E s \in SessionIds : cancel_session(s)
    \/ CleanupStart

\* resumptions of the suspended coroutines
Resume ==
    \/ \E c \in 1..Len(calls) : CallerPut(c)
    \/ \E c \in 1..Len(calls) : CallerPoll(c)
    \/ WorkersStart
    \/ \E w \in 1..Len(workers) : WorkerDequeue(w)
    \/ \E w \in 1..Len(workers) : WorkerGetTimeout(w)
    \/ \E w \in 1..Len(workers) : WorkerAcquire(w)
    \/ \E w \in 1..Len(workers), o \in AgentOutcomes : WorkerAgentReturn(w, o)
    \/ \E w \in 1..Len(workers), ok \in BOOLEAN : WorkerCallbackReturn(w, ok)
    \/ CleanupPut
    \/ CleanupGather

\* timers that run out: the batch wait timeout and the retention delay
Timer ==
    \/ \E c \in 1..Len(calls) : CallerTimeout(c)
    \/ \E s \in SessionIds : cleanup_session_later(s)

Next == ApiCall \/ Resume \/ Timer

Spec == Init /\ [][Next]_vars

\* ------------------------------------- one batch, one worker, by priority
\* an idle engine with a single worker loop that is given one batch whose
\* tasks carry any of the four priorities
PriorityInputs == [agent_name : AGENT_REGISTRY, priority : PriorityEnum]

PriorityBatches ==
    UNION {[1..n -> PriorityInputs] : n \in 1..(MaxWork - api_calls - 1)}

InitPriority == Init /\ max_workers = 1

NextPriority ==
    \/ workers = <<>> /\ initialize
    \/ /\ calls = <<>>
       /\ workers # <<>>
       /\ \E batch \in PriorityBatches, cb \in BOOLEAN :
              execute_agents_parallel(1, batch, cb)
    \/ \E s \in SessionIds : cancel_session(s)
    \/ \E c \in 1..Len(calls) : CallerPut(c)
    \/ \E c \in 1..Len(calls) : CallerPoll(c)
    \/ \E c \in 1..Len(calls) : CallerTimeout(c)
    \/ WorkersStart
    \/ \E w \in 1..Len(workers) : WorkerDequeue(w)
    \/ \E w \in 1..Len(workers), o \in AgentOutcomes : WorkerAgentReturn(w, o)
    \/ \E w \in 1..Len(workers), ok \in BOOLEAN : WorkerCallbackReturn(w, ok)

SpecPriority == InitPriority /\ [][NextPriority]_vars

\* ------------------------------------------------------------------ claims
TaskIds == 1..Len(tasks)

WorkerIds == 1..Len(workers)

CallIds == 1..Len(calls)

Invoking == {w \in WorkerIds : workers[w].pc = "execute"}

\* position of task t in the dispatch history, 0 if its agent was not invoked
DispatchPos(t) ==
    IF t \in Range(dispatched)
    THEN CHOOSE i \in 1..Len(dispatched) : dispatched[i] = t
    ELSE 0

\* C1: at no instant are more than max_workers AgentUnit invocations in
\* progress, whatever calls were made and however the workers interleave
C1_ConcurrencyBound == Cardinality(Invoking) <= max_workers

\* C1 witness: more worker loops than permits, every permit in use by a
\* running invocation and a further worker held back by the limiter
C1_Witness ==
    /\ Len(workers) > max_workers
    /\ Cardinality(Invoking) = max_workers
    /\ sem_waiters # <<>>

\* C2: a call whose wait ended for a reason other than the timeout has as
\* many tasks in completed plus failed as the batch has tasks
C2_AllAccounted ==
    \A c \in CallIds :
        (CallEnded(calls[c]) /\ calls[c].reason # "timeout")
            => Len(calls[c].result) = calls[c].total

\* C3: every status change follows PENDING -> RUNNING -> {COMPLETED, FAILED,
\* CANCELLED}; the only change that skips RUNNING is PENDING -> CANCELLED
C3_Transitions ==
    [][\A t \in TaskIds :
          tasks'[t].status # tasks[t].status
              => <<tasks[t].status, tasks'[t].status>> \in
                     {<<"pending", "running">>, <<"running", "completed">>,
                      <<"running", "failed">>, <<"running", "cancelled">>,
                      <<"pending", "cancelled">>}]_vars

\* C4: a task is COMPLETED exactly when its own AgentUnit succeeded and, once
\* its AgentUnit has failed or raised, FAILED
C4_OutcomeDecidesStatus ==
    \A t \in TaskIds :
        /\ (tasks[t].status = "completed") <=> (tasks[t].outcome = "completed")
        /\ tasks[t].outcome \in {"failed", "raised"} => tasks[t].status = "failed"

\* C5: when a call returns because its session was cancelled, every task of
\* its batch that had not been dispatched when cancel_session ran is CANCELLED
C5_CancelledAtReturn ==
    [][\A c \in CallIds :
          (/\ calls[c].pc # "returned"
           /\ calls'[c].pc = "returned"
           /\ calls'[c].reason = "cancel")
              => \A t \in Range(calls[c].batch) :
                     tasks'[t].cancel_pending => tasks'[t].status = "cancelled"]_vars

\* C6: a task that had not started when cancel_session flagged its session is
\* never handed to its AgentUnit; once a worker has taken it, it is CANCELLED
C6_NoDispatchAfterCancel ==
    \A t \in TaskIds :
        tasks[t].cancel_pending
            => /\ t \notin Range(dispatched)
               /\ tasks[t].status \in {"pending", "cancelled"}

C8_TimeoutReturnsPartial ==
    \A c \in CallIds : calls[c].reason = "timeout" => calls[c].pc = "returned"

\* C9: a task whose agent name the registry does not know is never invoked;
\* once the lookup has missed it is FAILED with the unknown-agent message and
\* in the failed list of its session, and the call that awaits it returns
C9_UnknownAgentFails ==
    /\ \A t \in TaskIds :
           tasks[t].agent_name \notin AGENT_REGISTRY
               => /\ t \notin Range(dispatched)
                  /\ tasks[t].status \in {"pending", "cancelled", "failed"}
                  /\ tasks[t].status = "failed"
                         => /\ tasks[t].error_message \in
                                   {"unknown_agent", "session_missing"}
                            /\ ~tasks[t].output_data
                  /\ tasks[t].error_message = "unknown_agent"
                         => /\ tasks[t].status = "failed"
                            /\ \E i \in 1..Len(contexts) :
                                   /\ contexts[i].session_id = tasks[t].session_id
                                   /\ t \in Range(contexts[i].failed_tasks)
    /\ \A c \in CallIds :
           (calls[c].reason = "complete" /\ calls[c].total > 0)
               => calls[c].pc = "returned"

\* C9 witness: an unknown-agent task failed by the lookup and handed back to
\* the caller in the result of a call that returned
C9_Witness ==
    \E t \in TaskIds, c \in CallIds :
        /\ tasks[t].error_message = "unknown_agent"
        /\ calls[c].pc = "returned"
        /\ t \in Range(calls[c].result)

\* C10: a cleanup() that follows a completed cleanup() leaves the queue as
\* it was and does not release the executor again
C10_SecondCleanupNoEffect ==
    [][(shutdown.calls >= 1 /\ shutdown' # shutdown)
          => /\ task_queue' = task_queue
             /\ shutdown'.executor_shutdowns = shutdown.executor_shutdowns]_vars

\* C11: a call of execute_agents_parallel on a started engine never ends
\* with an exception instead of a result list (whatever the batch size and
\* whatever the agents do)
C11_NeverRaises == \A c \in CallIds : calls[c].pc # "raised"

\* C12: while the engine is running no worker loop has ended because of a
\* task it dispatched
C12_WorkerSurvives ==
    is_running => \A w \in WorkerIds : workers[w].pc # "crashed"

\* the SessionContext objects that are in the session table
ActiveContexts == {active_sessions[s] : s \in SessionIds} \ {0}

NoDuplicates(seq) == Cardinality(Range(seq)) = Len(seq)

SubmittedTo(s) == {t \in TaskIds : tasks[t].session_id = s}

ShutDown == shutdown.calls >= 1 /\ shutdown.pc = "idle" /\ ~is_running

\* C18: a call of execute_agents_parallel creates a SessionContext or puts a
\* task on the queue only on an engine that is initialized and not shut down
C18_SubmitOnlyWhileStarted ==
    [][(\/ Len(contexts') > Len(contexts)
        \/ Len(tasks') > Len(tasks))
          => (is_initialized /\ ~ShutDown)]_vars

\* C19: a call suspended in a put on the full queue is never left without
\* any step of the engine that could still happen: either a worker frees
\* space or the put ends with an error
C19_PutNeverStuck ==
    \A c \in CallIds : calls[c].pc = "put" => ENABLED Resume

\* C20: a cleanup() that has not returned is never left without any step of
\* the engine that could still happen (no invocation in flight, no worker
\* that could take an item, no put that could go through)
C20_CleanupNeverStuck == shutdown.pc # "idle" => ENABLED Resume

\* C21: when an agent returns a result for a task whose session was
\* cancelled during the invocation, the task takes the result's status and
\* is appended to the completed or the failed list of its session
C21_InFlightNotInterrupted ==
    [][\A w \in WorkerIds :
          (/\ workers[w].pc = "execute"
           /\ workers'[w].pc # "execute"
           /\ contexts[workers[w].ctx].is_cancelled)
              => LET t == workers[w].task
                     ci == workers[w].ctx
                 IN /\ tasks'[t].outcome = "completed"
                        => /\ tasks'[t].status = "completed"
                           /\ contexts'[ci].completed_tasks =
                                  Append(contexts[ci].completed_tasks, t)
                           /\ contexts'[ci].failed_tasks = contexts[ci].failed_tasks
                    /\ tasks'[t].outcome = "failed"
                        => /\ tasks'[t].status = "failed"
                           /\ contexts'[ci].failed_tasks =
                                  Append(contexts[ci].failed_tasks, t)
                           /\ contexts'[ci].completed_tasks =
                                  contexts[ci].completed_tasks]_vars

\* C21 witness: a call returned on the cancel without a task of its batch,
\* and that task, in flight at the time, later completed into the same
\* session's completed list
C21_Witness ==
    \E c \in CallIds, t \in TaskIds :
        /\ calls[c].pc = "returned"
        /\ calls[c].reason = "cancel"
        /\ t \in Range(calls[c].batch)
        /\ t \notin Range(calls[c].result)
        /\ contexts[calls[c].ctx].is_cancelled
        /\ tasks[t].status = "completed"
        /\ t \in Range(contexts[calls[c].ctx].completed_tasks)

\* the fields of a task that the program holds (cancel_pending only
\* remembers, for the claims, that a cancel found the task undispatched)
TaskRecord(t) == [f \in DOMAIN tasks[t] \ {"cancel_pending"} |-> tasks[t][f]]

\* C22: a step that sets a session's cancelled flag outside a shutdown is a
\* cancel_session call, and it changes nothing but the flag of the one
\* context registered under that session id: the queue, every task record,
\* the lists, the worker statistics, the session table and every other
\* context are unchanged
C22_CancelOnlySetsFlag ==
    [][(/\ shutdown' = shutdown
        /\ \E i \in 1..Len(contexts) :
              ~contexts[i].is_cancelled /\ contexts'[i].is_cancelled)
          => /\ task_queue' = task_queue
             /\ getters' = getters
             /\ workers' = workers
             /\ semaphore' = semaphore
             /\ sem_waiters' = sem_waiters
             /\ active_sessions' = active_sessions
             /\ calls' = calls
             /\ Len(tasks') = Len(tasks)
             /\ \A t \in TaskIds :
                   [f \in DOMAIN tasks'[t] \ {"cancel_pending"} |-> tasks'[t][f]]
                       = TaskRecord(t)
             /\ \E s \in SessionIds :
                   /\ active_sessions[s] # 0
                   /\ contexts' = [contexts EXCEPT
                                      ![active_sessions[s]].is_cancelled = TRUE]]_vars

\* C22 witness: with no shutdown ever started, one registered session is
\* flagged cancelled while another is not, and a task is still queued
C22_Witness ==
    /\ shutdown.calls = 0
    /\ shutdown.pc = "idle"
    /\ task_queue # <<>>
    /\ \E i \in ActiveContexts, j \in ActiveContexts :
          /\ i # j
          /\ contexts[i].is_cancelled
          /\ ~contexts[j].is_cancelled

\* C23: while a session id stays in the table, its context keeps what was
\* recorded: the tasks, the completed and failed lists and the cancelled
\* flag of the context before a step are still in the context registered
\* under the id after it, a second submit included
C23_ResubmitReusesContext ==
    [][\A s \in SessionIds :
          (active_sessions[s] # 0 /\ active_sessions'[s] # 0)
              => LET old == contexts[active_sessions[s]]
                     new == contexts'[active_sessions'[s]]
                 IN /\ Range(old.tasks) \subseteq Range(new.tasks)
                    /\ Range(old.completed_tasks) \subseteq Range(new.completed_tasks)
                    /\ Range(old.failed_tasks) \subseteq Range(new.failed_tasks)
                    /\ old.is_cancelled => new.is_cancelled]_vars

\* the worker loops that have been created and have not ended
LiveWorkers == {w \in WorkerIds : workers[w].pc \notin {"exited", "crashed"}}

\* C24: once the engine is started and until a shutdown begins, exactly
\* max_workers worker loops are live
C24_ExactlyMaxWorkersLive ==
    (is_initialized /\ is_running /\ shutdown.calls = 0 /\ shutdown.pc = "idle")
        => Cardinality(LiveWorkers) = max_workers

\* the statuses a task does not leave
TerminalStatuses == {"completed", "failed", "cancelled"}

\* the session a task was submitted under is registered with a progress sink
HasSink(t) ==
    /\ active_sessions[tasks[t].session_id] # 0
    /\ contexts[active_sessions[tasks[t].session_id]].progress_callback

\* C25: a step that takes a task of a session with a progress sink to
\* COMPLETED, FAILED or CANCELLED leaves its worker invoking the sink
C25_SinkAfterEveryTerminal ==
    [][\A t \in TaskIds :
          (/\ tasks[t].status \notin TerminalStatuses
           /\ tasks'[t].status \in TerminalStatuses
           /\ HasSink(t))
              => \E w \in WorkerIds :
                    /\ workers'[w].task = t
                    /\ workers'[w].pc = "callback"]_vars

\* how often t occurs in seq
Occurrences(seq, t) == Cardinality({k \in 1..Len(seq) : seq[k] = t})

\* the sum of f[1] .. f[n]
RECURSIVE SumTo(_, _)
SumTo(f, n) == IF n = 0 THEN 0 ELSE f[n] + SumTo(f, n - 1)

\* entries of t in the completed (failed) lists of the contexts created for
\* its session id
CompletedEntries(t) ==
    SumTo([i \in 1..Len(contexts) |->
              IF contexts[i].session_id = tasks[t].session_id
              THEN Occurrences(contexts[i].completed_tasks, t) ELSE 0],
          Len(contexts))

FailedEntries(t) ==
    SumTo([i \in 1..Len(contexts) |->
              IF contexts[i].session_id = tasks[t].session_id
              THEN Occurrences(contexts[i].failed_tasks, t) ELSE 0],
          Len(contexts))

\* no worker is between the dequeue of a task and the end of _execute_task
NothingInFlight ==
    \A w \in WorkerIds : workers[w].pc \notin {"acquire", "execute", "callback"}

\* C26: a COMPLETED task has exactly one entry in a completed list of its
\* session and a FAILED task exactly one in a failed list, and when no task
\* is in flight the workers' tasks_completed (tasks_failed) counters add up
\* to the sizes of the completed (failed) lists of all contexts created
C26_CountedExactlyOnce ==
    /\ \A t \in TaskIds :
          /\ tasks[t].status = "completed" => CompletedEntries(t) = 1
          /\ tasks[t].status = "failed" => FailedEntries(t) = 1
    /\ NothingInFlight =>
          /\ SumTo([w \in WorkerIds |-> workers[w].tasks_completed], Len(workers))
                = SumTo([i \in 1..Len(contexts) |-> Len(contexts[i].completed_tasks)],
                        Len(contexts))
          /\ SumTo([w \in WorkerIds |-> workers[w].tasks_failed], Len(workers))
                = SumTo([i \in 1..Len(contexts) |-> Len(contexts[i].failed_tasks)],
                        Len(contexts))

\* the workers that took t off the queue and have not finished with it
Holders(t) ==
    {w \in WorkerIds : workers[w].task = t
                       /\ workers[w].pc \in {"acquire", "execute", "callback"}}

\* the calls that still have to put t on the queue
Putting(t) == {c \in CallIds : calls[c].pc = "put" /\ t \in Range(calls[c].rest)}

InGuardedSection == {w \in WorkerIds : workers[w].pc \in {"execute", "callback"}}

\* C28: the free permits and the workers inside the guarded section of
\* _execute_task add up to max_workers; a worker outside it shows no
\* current_task, and with nobody inside all max_workers permits are free
C28_PermitsConserved ==
    /\ semaphore + Cardinality(InGuardedSection) = max_workers
    /\ \A w \in WorkerIds \ InGuardedSection : workers[w].current_task = "none"
    /\ InGuardedSection = {} => semaphore = max_workers

\* C28 witness: every permit is free again after one task left the guarded
\* section through the except branch and another through the cancelled
\* branch
C28_Witness ==
    /\ semaphore = max_workers
    /\ InGuardedSection = {}
    /\ \E t1 \in TaskIds, t2 \in TaskIds :
          /\ tasks[t1].status = "failed"
          /\ tasks[t1].error_message \in {"exception", "callback_error"}
          /\ tasks[t2].status = "cancelled"

\* C29: while the engine is running, a PENDING task that is on the queue
\* and whose session is in the table has a live worker loop left to dequeue
\* it (without one it stays PENDING however the loops are scheduled)
C29_QueuedTaskHasWorker ==
    \A t \in TaskIds :
        (/\ is_running
         /\ t \in Range(task_queue)
         /\ tasks[t].status = "pending"
         /\ active_sessions[tasks[t].session_id] # 0)
            => LiveWorkers # {}

\* the contexts whose cancelled flag the step sets
NewlyFlagged ==
    {i \in 1..Len(contexts) : ~contexts[i].is_cancelled /\ contexts'[i].is_cancelled}

====
